---- MODULE Spec2Model ----
(***************************************************************************)
(* Model of the admin user-management page (src/app/admin/users/page.jsx)  *)
(* and of the candidate list's rating calculator (src/unnamed/part_000).   *)
(*                                                                         *)
(* Conventions.  A JavaScript value that may be null/undefined is a        *)
(* sequence of length 0 (absent) or 1 (present): Absent, Some(v).  A       *)
(* string is a sequence of one-character strings, so that toLowerCase and  *)
(* includes are computed and not assumed.  A Supabase call resolves to an  *)
(* object {data, error, count}: it never rejects, a failure is a non-null  *)
(* error with null data/count.                                             *)
(***************************************************************************)
EXTENDS Integers, Sequences, FiniteSets, TLC

VARIABLES
    users,          \* useState([])            page.jsx:23
    filteredUsers,  \* useState([])            page.jsx:24
    loading,        \* useState(true)          page.jsx:25
    searchTerm,     \* useState('')            page.jsx:26
    sortBy,         \* useState('created_at')  page.jsx:27
    sortOrder,      \* useState('desc')        page.jsx:28
    showBanned,     \* useState(true)          page.jsx:29
    effectDeps,     \* the dependency values of the last run of the effect of page.jsx:35-37
    mounted,        \* whether the mount effects of page.jsx:31-37 have run
    queryChanges,   \* number of query-state changes made so far
    dbUsers,        \* backend table 'users'
    dbInterviews,   \* backend table 'Interviews', as a count per userEmail
    dbResults,      \* backend table 'interview_results', as a count per interview_id
    passes,         \* the runs of fetchUsers
    ops,            \* the runs of deleteUser / banUser
    engine,         \* the Array.prototype.sort algorithm of the JavaScript engine in use
    call,           \* an invocation of a pure function (its name and arguments)
    ret             \* the value that invocation returned, Absent before it returned

vars == <<users, filteredUsers, loading, searchTerm, sortBy, sortOrder, showBanned,
          effectDeps, mounted, queryChanges, dbUsers, dbInterviews, dbResults,
          passes, ops, engine, call, ret>>

pageVars == <<users, filteredUsers, loading, searchTerm, sortBy, sortOrder, showBanned,
              effectDeps, mounted, queryChanges>>

dbVars == <<dbUsers, dbInterviews, dbResults>>

pureVars == <<call, ret>>

(***************************************************************************)
(* Bounds of the model.                                                    *)
(***************************************************************************)
\* user interactions in one behaviour: moderation actions (deleteUser / banUser runs)
\* plus query-state changes (search, sort key, direction, banned toggle)
MaxEvents == 1
\* length of the enriched collection handed to the pure filter/sort check
MaxLen == 3

(***************************************************************************)
(* Optional values and strings.                                            *)
(***************************************************************************)
Absent == <<>>

Some(v) == <<v>>

IsPresent(o) == o # Absent

\* the one-character strings the model's names, emails and search terms are made of
Chars == {"a", "b", "A", "B"}

\* String.prototype.toLowerCase on one character
LowerChar(c) == CASE c = "A" -> "a" [] c = "B" -> "b" [] OTHER -> c

\* String.prototype.toLowerCase
ToLowerCase(s) == [i \in 1..Len(s) |-> LowerChar(s[i])]

\* String.prototype.includes
Includes(s, t) == \E i \in 0..(Len(s) - Len(t)) : SubSeq(s, i + 1, i + Len(t)) = t

\* the UTF-16 code unit of a character (the order of JavaScript's string comparison)
CharCode(c) == CASE c = "A" -> 65 [] c = "B" -> 66 [] c = "a" -> 97 [] c = "b" -> 98

\* s < t for two strings: lexicographic by code unit, a proper prefix first
RECURSIVE StrLess(_, _)
StrLess(s, t) ==
    IF t = <<>> THEN FALSE
    ELSE IF s = <<>> THEN TRUE
    ELSE IF CharCode(Head(s)) # CharCode(Head(t)) THEN CharCode(Head(s)) < CharCode(Head(t))
    ELSE StrLess(Tail(s), Tail(t))

(***************************************************************************)
(* getStatusText, page.jsx:135-140.                                        *)
(***************************************************************************)
\* getStatusText as it would be with the activity check before the banned check
getStatusTextActiveFirst(user) ==
    IF user.interviewCount > 0 THEN "Active"
    ELSE IF user.banned THEN "Banned"
    ELSE IF IsPresent(user.created_at) THEN "Registered"
    ELSE "Inactive"

getStatusText(user) ==
    IF user.banned THEN "Banned"
    ELSE IF user.interviewCount > 0 THEN "Active"
    ELSE IF IsPresent(user.created_at) THEN "Registered"
    ELSE "Inactive"

(***************************************************************************)
(* calculateRating, part_000:8-17.  A rating entry is [type, v]: type is   *)
(* what typeof gives ("number", "string", "object" for null) and v the     *)
(* number when it is one.                                                  *)
(***************************************************************************)
\* candidate?.conversation_transcript?.feedback?.rating
RatingOf(candidate) ==
    IF ~IsPresent(candidate) THEN Absent
    ELSE IF ~IsPresent(candidate[1].conversation_transcript) THEN Absent
    ELSE IF ~IsPresent(candidate[1].conversation_transcript[1].feedback) THEN Absent
    ELSE candidate[1].conversation_transcript[1].feedback[1].rating

\* the keys whose value passes filter(val => typeof val === "number")
NumericKeys(rating) == {k \in DOMAIN rating : rating[k].type = "number"}

\* values.reduce((a, b) => a + b, 0)
RECURSIVE SumOver(_, _)
SumOver(rating, keys) ==
    IF keys = {} THEN 0
    ELSE LET k == CHOOSE x \in keys : TRUE
         IN  rating[k].v + SumOver(rating, keys \ {k})

\* MathRound as it would be with Math.floor
MathFloor(sum, n) == sum \div n

\* Math.round(sum / n): the integer nearest to sum/n, a half rounded towards +infinity
MathRound(sum, n) == (2 * sum + n) \div (2 * n)

calculateRating(candidate) ==
    LET rating == RatingOf(candidate)
    IN  IF ~IsPresent(rating) THEN "N/A"
        ELSE LET keys == NumericKeys(rating[1])
             IN  IF Cardinality(keys) = 0 THEN "N/A"
                 ELSE ToString(MathRound(SumOver(rating[1], keys), Cardinality(keys))) \o "/10"

(***************************************************************************)
(* filterAndSortUsers, page.jsx:79-109.                                    *)
(***************************************************************************)
\* fieldMatches as it would be without toLowerCase() on the search term
fieldMatchesRawTerm(field, term) ==
    IsPresent(field) /\ Includes(ToLowerCase(field[1]), term)

\* user.name?.toLowerCase().includes(searchTerm.toLowerCase()) and the same for email:
\* optional chaining yields undefined (falsy) for an absent field
fieldMatches(field, term) ==
    IsPresent(field) /\ Includes(ToLowerCase(field[1]), ToLowerCase(term))

\* page.jsx:82-83
matchesSearch(user, term) == fieldMatches(user.name, term) \/ fieldMatches(user.email, term)

\* page.jsx:86
matchesBannedFilter(user, showB) == showB \/ ~user.banned

\* users.filter(...), page.jsx:80-89: the passing records in input order
RECURSIVE filterUsers(_, _, _)
filterUsers(us, term, showB) ==
    IF us = <<>> THEN <<>>
    ELSE LET rest == filterUsers(Tail(us), term, showB)
         IN  IF matchesSearch(Head(us), term) /\ matchesBannedFilter(Head(us), showB)
             THEN <<Head(us)>> \o rest
             ELSE rest

\* A JavaScript primitive under comparison: a number, a string or null.
JsNumber(n) == [type |-> "number", n |-> n, s |-> <<>>]

JsString(s) == [type |-> "string", n |-> 0, s |-> s]

JsNull == [type |-> "null", n |-> 0, s |-> <<>>]

\* a[sortBy], after new Date(...) for created_at (page.jsx:93-99).  new Date(null) is
\* the epoch, instant 0; a Date compares by its instant.
sortValue(user, by) ==
    CASE by = "created_at" ->
             JsNumber(IF IsPresent(user.created_at) THEN user.created_at[1] ELSE 0)
      [] by = "name" -> IF IsPresent(user.name) THEN JsString(user.name[1]) ELSE JsNull
      [] by = "email" -> IF IsPresent(user.email) THEN JsString(user.email[1]) ELSE JsNull
      [] by = "interviewCount" -> JsNumber(user.interviewCount)

\* ToNumber: Absent stands for NaN (a string that is not a numeric literal)
ToNumber(x) ==
    CASE x.type = "number" -> Some(x.n)
      [] x.type = "null" -> Some(0)
      [] x.type = "string" -> IF x.s = <<>> THEN Some(0) ELSE Absent

\* x > y, JavaScript's relational comparison: two strings by code units, anything else
\* by ToNumber, false when either side is NaN
JsGreater(x, y) ==
    IF x.type = "string" /\ y.type = "string" THEN StrLess(y.s, x.s)
    ELSE /\ IsPresent(ToNumber(x))
         /\ IsPresent(ToNumber(y))
         /\ ToNumber(x)[1] > ToNumber(y)[1]

\* the comparator of page.jsx:92-106
compare(a, b, by, ord) ==
    IF ord = "asc"
    THEN IF JsGreater(sortValue(a, by), sortValue(b, by)) THEN 1 ELSE -1
    ELSE IF JsGreater(sortValue(b, by), sortValue(a, by)) THEN 1 ELSE -1

(***************************************************************************)
(* Array.prototype.sort (page.jsx:92).  With a comparator that is not      *)
(* consistent the order is implementation-defined, so the model carries    *)
(* the engine's algorithm: "v8" is V8's TimSort on an array shorter than   *)
(* its minimal run (count the initial run, reverse it when descending,     *)
(* binary insertion for the rest); "merge" is a top-down stable merge      *)
(* sort, the algorithm of the other engines.                               *)
(***************************************************************************)
Engines == {"v8", "merge"}

RECURSIVE Reverse(_)
Reverse(s) == IF s = <<>> THEN <<>> ELSE Reverse(Tail(s)) \o <<Head(s)>>

\* V8 CountAndMakeRun: the last index (1-based) of the run that starts at index 1
RECURSIVE RunEnd(_, _, _, _, _)
RunEnd(a, idx, desc, by, ord) ==
    IF idx > Len(a) THEN Len(a)
    ELSE LET order == compare(a[idx], a[idx - 1], by, ord)
         IN  IF (desc /\ order >= 0) \/ (~desc /\ order < 0)
             THEN idx - 1
             ELSE RunEnd(a, idx + 1, desc, by, ord)

\* V8 BinaryInsertionSort's search: the 0-based position of pivot in a[left .. right-1]
RECURSIVE BinPos(_, _, _, _, _, _)
BinPos(a, pivot, left, right, by, ord) ==
    IF left >= right THEN left
    ELSE LET mid == left + ((right - left) \div 2)
         IN  IF compare(pivot, a[mid + 1], by, ord) < 0
             THEN BinPos(a, pivot, left, mid, by, ord)
             ELSE BinPos(a, pivot, mid + 1, right, by, ord)

\* V8 BinaryInsertionSort: a[1..start] is sorted, insert a[start+1], a[start+2], ...
RECURSIVE BinInsertFrom(_, _, _, _)
BinInsertFrom(a, start, by, ord) ==
    IF start >= Len(a) THEN a
    ELSE LET pivot == a[start + 1]
             left == BinPos(a, pivot, 0, start, by, ord)
             moved == SubSeq(a, 1, left) \o <<pivot>> \o SubSeq(a, left + 1, start)
                      \o SubSeq(a, start + 2, Len(a))
         IN  BinInsertFrom(moved, start + 1, by, ord)

SortV8(a, by, ord) ==
    IF Len(a) < 2 THEN a
    ELSE LET desc == compare(a[2], a[1], by, ord) < 0
             run == RunEnd(a, 3, desc, by, ord)
             made == IF desc
                     THEN Reverse(SubSeq(a, 1, run)) \o SubSeq(a, run + 1, Len(a))
                     ELSE a
         IN  BinInsertFrom(made, run, by, ord)

\* merge of two sorted runs: the left head unless the comparator puts it after the right
RECURSIVE Merge(_, _, _, _)
Merge(l, r, by, ord) ==
    IF l = <<>> THEN r
    ELSE IF r = <<>> THEN l
    ELSE IF compare(Head(l), Head(r), by, ord) <= 0
         THEN <<Head(l)>> \o Merge(Tail(l), r, by, ord)
         ELSE <<Head(r)>> \o Merge(l, Tail(r), by, ord)

RECURSIVE SortMerge(_, _, _)
SortMerge(a, by, ord) ==
    IF Len(a) < 2 THEN a
    ELSE LET mid == Len(a) \div 2
         IN  Merge(SortMerge(SubSeq(a, 1, mid), by, ord),
                   SortMerge(SubSeq(a, mid + 1, Len(a)), by, ord), by, ord)

\* filtered.sort(comparator) under engine eng
sortUsers(a, by, ord, eng) == IF eng = "v8" THEN SortV8(a, by, ord) ELSE SortMerge(a, by, ord)

\* page.jsx:79-109: the value handed to setFilteredUsers
filterAndSortUsers(us, term, by, ord, showB, eng) ==
    sortUsers(filterUsers(us, term, showB), by, ord, eng)

(***************************************************************************)
(* The data the model runs on.                                             *)
(***************************************************************************)
Str1(c) == <<c>>

Str2(c, d) == <<c, d>>

\* the rows of the backend's 'users' table, by id, with the two counts the backend holds
\* for each at the start (Interviews by userEmail, interview_results by interview_id)
Profile(id) ==
    CASE id = 1 -> [id |-> 1, name |-> Some(Str2("A", "b")), email |-> Some(Str1("b")),
                    created_at |-> Some(3), banned |-> FALSE, interview_id |-> Some(1),
                    interviewCount |-> 1, candidateCount |-> 1]
      [] id = 2 -> [id |-> 2, name |-> Absent, email |-> Some(Str1("a")),
                    created_at |-> Some(2), banned |-> FALSE, interview_id |-> Some(2),
                    interviewCount |-> 0, candidateCount |-> 0]
      [] id = 3 -> [id |-> 3, name |-> Some(Str1("a")), email |-> Absent,
                    created_at |-> Some(2), banned |-> TRUE, interview_id |-> Some(3),
                    interviewCount |-> 2, candidateCount |-> 0]
      [] id = 4 -> [id |-> 4, name |-> Absent, email |-> Absent,
                    created_at |-> Some(1), banned |-> FALSE, interview_id |-> Absent,
                    interviewCount |-> 1, candidateCount |-> 0]
      [] id = 5 -> [id |-> 5, name |-> Some(Str1("b")), email |-> Some(Str2("a", "B")),
                    created_at |-> Absent, banned |-> FALSE, interview_id |-> Some(5),
                    interviewCount |-> 0, candidateCount |-> 2]
      [] id = 6 -> [id |-> 6, name |-> Some(Str1("a")), email |-> Some(Str1("A")),
                    created_at |-> Some(1), banned |-> TRUE, interview_id |-> Some(6),
                    interviewCount |-> 2, candidateCount |-> 1]

\* the ids of the enriched records the pure filter/sort check draws from
PoolIds == {1, 2, 3, 4, 5, 6}

\* the search terms typed into the search box
Terms == {<<>>, Str1("a"), Str1("B"), Str2("a", "b")}

\* the search terms typed while the page runs
PageTerms == {<<>>, Str1("B")}

SortKeys == {"created_at", "name", "email", "interviewCount"}

SortOrders == {"asc", "desc"}

\* .order('created_at', { ascending: false }), page.jsx:45: descending, NULLs first
\* (PostgreSQL's default for DESC); rows with equal instants in either order
listOrdered(rows) ==
    \A i \in 1..(Len(rows) - 1) :
        \/ ~IsPresent(rows[i].created_at)
        \/ /\ IsPresent(rows[i + 1].created_at)
           /\ rows[i].created_at[1] >= rows[i + 1].created_at[1]

\* the sequences without repetition of at most n records of the pool
RECURSIVE PoolSeqs(_)
PoolSeqs(n) ==
    IF n = 0 THEN {<<>>}
    ELSE LET shorter == PoolSeqs(n - 1)
         IN  shorter \cup
             {Append(q, Profile(i)) : q \in {r \in shorter : Len(r) = n - 1}, i \in PoolIds}

\* the enriched collections the page can hold: distinct records in the order of the
\* listing query
EnrichedLists ==
    {q \in PoolSeqs(MaxLen) :
        /\ \A i, j \in 1..Len(q) : i # j => q[i].id # q[j].id
        /\ listOrdered(q)}

\* the users getStatusText is applied to (the fields it reads)
StatusUsers == [banned : BOOLEAN, interviewCount : {0, 1, 5}, created_at : {Absent, Some(1)}]

\* the criterion names of a rating mapping
Criteria == {"a", "b", "c"}

\* the values of a rating entry: numbers in and out of 0..10, null, a string
RatingValues ==
    {[type |-> "number", v |-> n] : n \in {-3, 0, 4, 7, 8, 10, 13}}
        \cup {[type |-> "object", v |-> 0], [type |-> "string", v |-> 0]}

\* the rating mappings: every subset of the criteria, every value for each
RatingMaps == UNION {[ks -> RatingValues] : ks \in SUBSET Criteria}

\* the candidates calculateRating is applied to: missing at each level, or with a mapping
Candidates ==
    {Absent,
     Some([conversation_transcript |-> Absent]),
     Some([conversation_transcript |-> Some([feedback |-> Absent])]),
     Some([conversation_transcript |-> Some([feedback |-> Some([rating |-> Absent])])])}
        \cup {Some([conversation_transcript |-> Some([feedback |-> Some([rating |-> Some(m)])])]) :
                 m \in RatingMaps}

\* the invocations of the three pure functions
PureCalls ==
    {[fn |-> "filterAndSortUsers", users |-> us, searchTerm |-> t, sortBy |-> by,
      sortOrder |-> ord, showBanned |-> sb] :
        us \in EnrichedLists, t \in Terms, by \in SortKeys, ord \in SortOrders,
        sb \in BOOLEAN}
        \cup {[fn |-> "getStatusText", user |-> u] : u \in StatusUsers}
        \cup {[fn |-> "calculateRating", candidate |-> c] : c \in Candidates}

\* no invocation
NoCall == [fn |-> "none"]

(***************************************************************************)
(* The backend (the Supabase tables) as the page's calls see it.  A call   *)
(* takes effect and resolves in one step.                                  *)
(***************************************************************************)
\* the ids of the rows of 'users' when the page is opened
UserIds == {1, 2}

PassIds == 1..(MaxEvents + 1)

OpIds == 1..MaxEvents

CallResults == {"ok", "error"}

\* the row of user id as select('*') returns it
dbRow(id) ==
    [id |-> id, name |-> Profile(id).name, email |-> Profile(id).email,
     created_at |-> Profile(id).created_at, banned |-> dbUsers[id].banned,
     interview_id |-> Profile(id).interview_id]

\* the results of from('users').select('*').order('created_at', {ascending: false}),
\* page.jsx:42-45: the rows present, in the order of the listing
listUsers ==
    LET present == {id \in UserIds : dbUsers[id].present}
        n == Cardinality(present)
        orders == {g \in [1..n -> present] : \A i, j \in 1..n : i # j => g[i] # g[j]}
    IN  {q \in {[i \in 1..n |-> dbRow(g[i])] : g \in orders} : listOrdered(q)}

\* select('*', {count: 'exact', head: true}).eq('userEmail', email), page.jsx:52-55
countInterviews(email) == IF email \in DOMAIN dbInterviews THEN dbInterviews[email] ELSE 0

\* select('*', {count: 'exact', head: true}).eq('interview_id', iid), page.jsx:57-60
countResults(iid) == IF iid \in DOMAIN dbResults THEN dbResults[iid] ELSE 0

\* from('Interviews').delete().eq('userEmail', email), page.jsx:152-155
deleteInterviews(email) == [e \in DOMAIN dbInterviews |-> IF e = email THEN 0 ELSE dbInterviews[e]]

\* from('interview_results').delete().eq('interview_id', iid), page.jsx:161-164
deleteResults(iid) == [r \in DOMAIN dbResults |-> IF r = iid THEN 0 ELSE dbResults[r]]

\* from('users').delete().eq('id', userId), page.jsx:171-174
deleteUserRow(userId) ==
    [id \in UserIds |-> IF id = userId THEN [dbUsers[id] EXCEPT !.present = FALSE]
                        ELSE dbUsers[id]]

\* updateBanned as it would be without .eq('id', userId): every row is updated
updateBannedAll(userId, banStatus) ==
    [id \in UserIds |-> [dbUsers[id] EXCEPT !.banned = banStatus]]

\* from('users').update({ banned: banStatus }).eq('id', userId), page.jsx:188-191
updateBanned(userId, banStatus) ==
    [id \in UserIds |-> IF id = userId THEN [dbUsers[id] EXCEPT !.banned = banStatus]
                        ELSE dbUsers[id]]

(***************************************************************************)
(* fetchUsers, page.jsx:39-77.  A run (a pass) is a record: pc is where it *)
(* is suspended ("list": the listing query; "lookups": Promise.all over    *)
(* the per-user lookups; "done"), data the listed rows, stage/ic/cc each   *)
(* per-user lookup's position and counts.  lookupFailed, outcome, toasts   *)
(* and listQueries record what the run did.                                *)
(***************************************************************************)
IdlePass ==
    [pc |-> "idle", data |-> <<>>, stage |-> <<>>, ic |-> <<>>, cc |-> <<>>,
     lookupFailed |-> FALSE, outcome |-> "none", toasts |-> 0, listQueries |-> 0]

\* the pass the next call of fetchUsers runs as
nextPass == Cardinality({p \in DOMAIN passes : passes[p].pc # "idle"}) + 1

\* page.jsx:41-45: the listing query is issued (setLoading(true) is the caller's loading')
fetchStarted(pass) == [pass EXCEPT !.pc = "list", !.listQueries = @ + 1]

\* fetchFailed as it would be if the catch block called fetchUsers() again
fetchFailedRetry(pass) ==
    [pass EXCEPT !.pc = "list", !.toasts = @ + 1, !.listQueries = @ + 1]

\* page.jsx:47, 71-76: the listing query's error is thrown, logged and notified once
fetchFailed(pass) == [pass EXCEPT !.pc = "done", !.outcome = "failed", !.toasts = @ + 1]

\* page.jsx:50-55: every per-user lookup starts and issues its interview count
lookupsStarted(pass, data) ==
    [pass EXCEPT !.pc = "lookups", !.data = data,
                 !.stage = [i \in 1..Len(data) |-> "interviews"],
                 !.ic = [i \in 1..Len(data) |-> 0],
                 !.cc = [i \in 1..Len(data) |-> 0]]

\* count || 0, page.jsx:64-65: a failed count query resolves with count null
orZero(count) == IF IsPresent(count) THEN count[1] ELSE 0

\* page.jsx:52-57: the interview count resolved (res "error": with a null count and an
\* error the code does not read); the candidate count is issued
interviewCountReturned(pass, i, res, count) ==
    [pass EXCEPT !.stage[i] = "candidates", !.ic[i] = orZero(count),
                 !.lookupFailed = @ \/ res = "error"]

\* page.jsx:57-66: the candidate count resolved, the lookup returns its enriched record
candidateCountReturned(pass, i, res, count) ==
    [pass EXCEPT !.stage[i] = "done", !.cc[i] = orZero(count),
                 !.lookupFailed = @ \/ res = "error"]

\* page.jsx:62-66
enrich(user, interviewCount, candidateCount) ==
    [id |-> user.id, name |-> user.name, email |-> user.email,
     created_at |-> user.created_at, banned |-> user.banned,
     interview_id |-> user.interview_id,
     interviewCount |-> interviewCount, candidateCount |-> candidateCount]

\* the value of Promise.all, page.jsx:50-68
usersWithStats(pass) ==
    [i \in 1..Len(pass.data) |-> enrich(pass.data[i], pass.ic[i], pass.cc[i])]

\* page.jsx:70, 74-76: the pass ends having called setUsers
fetchInstalled(pass) ==
    [pass EXCEPT !.pc = "done", !.outcome = "installed",
                 !.data = <<>>, !.stage = <<>>, !.ic = <<>>, !.cc = <<>>]

\* deps as it would be with searchTerm left out of the dependency array
depsWithoutSearchTerm == <<users, sortBy, sortOrder, showBanned>>

\* the dependency array of the effect of page.jsx:35-37
deps == <<users, searchTerm, sortBy, sortOrder, showBanned>>

\* the effect of page.jsx:35-37 is due: React runs it after a render in which a
\* dependency differs from its value at the effect's last run
Pending == ~mounted \/ effectDeps # deps

\* the mount effects, page.jsx:31-37: fetchUsers() up to its first await, then
\* filterAndSortUsers()
Mount ==
    /\ ~mounted
    /\ mounted' = TRUE
    /\ passes' = [passes EXCEPT ![nextPass] = fetchStarted(@)]
    /\ loading' = TRUE
    /\ filteredUsers' = filterAndSortUsers(users, searchTerm, sortBy, sortOrder, showBanned, engine)
    /\ effectDeps' = deps
    /\ UNCHANGED <<users, searchTerm, sortBy, sortOrder, showBanned, queryChanges,
                   dbVars, ops, engine, pureVars>>

\* the effect of page.jsx:35-37 after a render that changed a dependency
RunEffect ==
    /\ mounted
    /\ effectDeps # deps
    /\ filteredUsers' = filterAndSortUsers(users, searchTerm, sortBy, sortOrder, showBanned, engine)
    /\ effectDeps' = deps
    /\ UNCHANGED <<users, loading, searchTerm, sortBy, sortOrder, showBanned, mounted,
                   queryChanges, dbVars, passes, ops, engine, pureVars>>

\* the listing query of pass p resolves, page.jsx:42-50 and 71-76
ListReturns(p) ==
    /\ passes[p].pc = "list"
    /\ \E res \in CallResults :
          IF res = "error"
             THEN /\ passes' = [passes EXCEPT ![p] = fetchFailed(@)]
                  /\ loading' = FALSE
                  /\ UNCHANGED users
             ELSE \E data \in listUsers :
                     IF data = <<>>
                     THEN /\ passes' = [passes EXCEPT ![p] = fetchInstalled(lookupsStarted(@, data))]
                          /\ users' = <<>>
                          /\ loading' = FALSE
                     ELSE /\ passes' = [passes EXCEPT ![p] = lookupsStarted(@, data)]
                          /\ UNCHANGED <<users, loading>>
    /\ UNCHANGED <<filteredUsers, searchTerm, sortBy, sortOrder, showBanned, effectDeps,
                   mounted, queryChanges, dbVars, ops, engine, pureVars>>

\* the interview count of the i-th user of pass p resolves, page.jsx:52-57
InterviewCountReturns(p, i) ==
    /\ passes[p].pc = "lookups"
    /\ i \in 1..Len(passes[p].data)
    /\ passes[p].stage[i] = "interviews"
    /\ \E res \in CallResults :
          LET count == IF res = "ok" THEN Some(countInterviews(passes[p].data[i].email))
                       ELSE Absent
          IN  passes' = [passes EXCEPT ![p] = interviewCountReturned(@, i, res, count)]
    /\ UNCHANGED <<pageVars, dbVars, ops, engine, pureVars>>

\* the candidate count of the i-th user of pass p resolves, page.jsx:57-76; when it is
\* the last lookup, Promise.all resolves and the pass installs its result
CandidateCountReturns(p, i) ==
    /\ passes[p].pc = "lookups"
    /\ i \in 1..Len(passes[p].data)
    /\ passes[p].stage[i] = "candidates"
    /\ \E res \in CallResults :
          LET count == IF res = "ok" THEN Some(countResults(passes[p].data[i].interview_id))
                       ELSE Absent
              pass == candidateCountReturned(passes[p], i, res, count)
          IN  IF \A j \in 1..Len(pass.data) : pass.stage[j] = "done"
              THEN /\ passes' = [passes EXCEPT ![p] = fetchInstalled(pass)]
                   /\ users' = usersWithStats(pass)
                   /\ loading' = FALSE
              ELSE /\ passes' = [passes EXCEPT ![p] = pass]
                   /\ UNCHANGED <<users, loading>>
    /\ UNCHANGED <<filteredUsers, searchTerm, sortBy, sortOrder, showBanned, effectDeps,
                   mounted, queryChanges, dbVars, ops, engine, pureVars>>

(***************************************************************************)
(* deleteUser (page.jsx:149-184) and banUser (page.jsx:186-201).  A run is *)
(* a record: pc is the call it is suspended on ("a": the Interviews        *)
(* delete, "b": the interview_results delete, "c": the users delete,       *)
(* "update": the ban update, "done").  aRes, bRes, cRes are what the calls *)
(* returned; cIssued, updates, okToasts, errToasts and passesStarted count *)
(* what the run did.                                                       *)
(***************************************************************************)
IdleOp ==
    [kind |-> "none", pc |-> "idle", userId |-> 0, banStatus |-> FALSE,
     email |-> Absent, interview_id |-> Absent,
     aRes |-> "none", bRes |-> "none", cRes |-> "none",
     cIssued |-> 0, updates |-> 0, okToasts |-> 0, errToasts |-> 0, passesStarted |-> 0]

\* the run the next call of deleteUser or banUser is
nextOp == Cardinality({o \in DOMAIN ops : ops[o].pc # "idle"}) + 1

\* the user has interactions left within the bound: as many as ops has runs
EventsLeft == queryChanges + nextOp - 1 < Cardinality(DOMAIN ops)

\* users.find(u => u.id === userId), page.jsx:155 and 164
findUser(us, userId) ==
    IF \E i \in 1..Len(us) : us[i].id = userId
    THEN Some(us[CHOOSE i \in 1..Len(us) : us[i].id = userId /\ \A j \in 1..(i - 1) : us[j].id # userId])
    ELSE Absent

\* users.find(...)?.email and ?.interview_id of the render deleteUser was called in
foundField(found, field) ==
    IF ~IsPresent(found) THEN Absent
    ELSE IF field = "email" THEN found[1].email ELSE found[1].interview_id

\* page.jsx:149-155: deleteUser(userId) up to its first await
deleteStarted(op, userId, us) ==
    [op EXCEPT !.kind = "delete", !.pc = "a", !.userId = userId,
               !.email = foundField(findUser(us, userId), "email"),
               !.interview_id = foundField(findUser(us, userId), "interview_id")]

\* interviewsDeleteReturned as it would be if the error of (a) were thrown like that of (c)
interviewsDeleteReturnedAbort(op, res) ==
    IF res = "error"
    THEN [op EXCEPT !.aRes = res, !.pc = "done", !.errToasts = @ + 1]
    ELSE [op EXCEPT !.aRes = res, !.pc = "b"]

\* page.jsx:157-164: (a) resolved; an error is logged; (b) is issued
interviewsDeleteReturned(op, res) == [op EXCEPT !.aRes = res, !.pc = "b"]

\* page.jsx:166-174: (b) resolved; an error is logged; (c) is issued
resultsDeleteReturned(op, res) == [op EXCEPT !.bRes = res, !.pc = "c", !.cIssued = @ + 1]

\* userDeleteReturned as it would be if an error of (a) or (b) were also thrown, after (c)
userDeleteReturnedStrict(op, res) ==
    IF res = "error" \/ op.aRes = "error" \/ op.bRes = "error"
    THEN [op EXCEPT !.cRes = res, !.pc = "done", !.errToasts = @ + 1]
    ELSE [op EXCEPT !.cRes = res, !.pc = "done", !.okToasts = @ + 1, !.passesStarted = @ + 1]

\* page.jsx:176-183: (c) resolved; an error is thrown to the catch, else success is
\* notified and fetchUsers() called
userDeleteReturned(op, res) ==
    IF res = "error"
    THEN [op EXCEPT !.cRes = res, !.pc = "done", !.errToasts = @ + 1]
    ELSE [op EXCEPT !.cRes = res, !.pc = "done", !.okToasts = @ + 1, !.passesStarted = @ + 1]

\* page.jsx:186-191: banUser(userId, banStatus) up to its await
banStarted(op, userId, banStatus) ==
    [op EXCEPT !.kind = "ban", !.pc = "update", !.userId = userId,
               !.banStatus = banStatus, !.updates = @ + 1]

\* page.jsx:193-200
banReturned(op, res) ==
    IF res = "error"
    THEN [op EXCEPT !.cRes = res, !.pc = "done", !.errToasts = @ + 1]
    ELSE [op EXCEPT !.cRes = res, !.pc = "done", !.okToasts = @ + 1, !.passesStarted = @ + 1]

\* the rows of the table are on screen: not loading (page.jsx:353) and rendered from the
\* latest filteredUsers
TableShown == mounted /\ ~loading /\ ~Pending

\* the effect of a run's step on the passes: fetchUsers() when the step called it
refresh(before, after) ==
    IF after.passesStarted > before.passesStarted
    THEN /\ passes' = [passes EXCEPT ![nextPass] = fetchStarted(@)]
         /\ loading' = TRUE
    ELSE UNCHANGED <<passes, loading>>

\* the Delete User button of a row, page.jsx:489
DeleteStart(i) ==
    /\ TableShown
    /\ EventsLeft
    /\ i \in 1..Len(filteredUsers)
    /\ ops' = [ops EXCEPT ![nextOp] = deleteStarted(@, filteredUsers[i].id, users)]
    /\ UNCHANGED <<pageVars, dbVars, passes, engine, pureVars>>

\* (a) resolves
InterviewsDeleteReturns(o) ==
    /\ ops[o].pc = "a"
    /\ \E res \in CallResults :
          /\ ops' = [ops EXCEPT ![o] = interviewsDeleteReturned(@, res)]
          /\ dbInterviews' = IF res = "ok" THEN deleteInterviews(ops[o].email) ELSE dbInterviews
    /\ UNCHANGED <<pageVars, dbUsers, dbResults, passes, engine, pureVars>>

\* (b) resolves
ResultsDeleteReturns(o) ==
    /\ ops[o].pc = "b"
    /\ \E res \in CallResults :
          /\ ops' = [ops EXCEPT ![o] = resultsDeleteReturned(@, res)]
          /\ dbResults' = IF res = "ok" THEN deleteResults(ops[o].interview_id) ELSE dbResults
    /\ UNCHANGED <<pageVars, dbUsers, dbInterviews, passes, engine, pureVars>>

\* (c) resolves
UserDeleteReturns(o) ==
    /\ ops[o].pc = "c"
    /\ \E res \in CallResults :
          /\ ops' = [ops EXCEPT ![o] = userDeleteReturned(@, res)]
          /\ dbUsers' = IF res = "ok" THEN deleteUserRow(ops[o].userId) ELSE dbUsers
          /\ refresh(ops[o], userDeleteReturned(ops[o], res))
    /\ UNCHANGED <<users, filteredUsers, searchTerm, sortBy, sortOrder, showBanned,
                   effectDeps, mounted, queryChanges, dbInterviews, dbResults, engine,
                   pureVars>>

\* the Ban User / Unban User button of a row, page.jsx:449
BanStart(i) ==
    /\ TableShown
    /\ EventsLeft
    /\ i \in 1..Len(filteredUsers)
    /\ ops' = [ops EXCEPT ![nextOp] = banStarted(@, filteredUsers[i].id, ~filteredUsers[i].banned)]
    /\ UNCHANGED <<pageVars, dbVars, passes, engine, pureVars>>

\* the ban update resolves
BanReturns(o) ==
    /\ ops[o].pc = "update"
    /\ \E res \in CallResults :
          /\ ops' = [ops EXCEPT ![o] = banReturned(@, res)]
          /\ dbUsers' = IF res = "ok" THEN updateBanned(ops[o].userId, ops[o].banStatus)
                        ELSE dbUsers
          /\ refresh(ops[o], banReturned(ops[o], res))
    /\ UNCHANGED <<users, filteredUsers, searchTerm, sortBy, sortOrder, showBanned,
                   effectDeps, mounted, queryChanges, dbInterviews, dbResults, engine,
                   pureVars>>

(***************************************************************************)
(* The query controls, page.jsx:306-337.                                   *)
(***************************************************************************)
ControlsShown == mounted /\ ~Pending /\ EventsLeft

\* the search box, page.jsx:309
SetSearchTerm(t) ==
    /\ ControlsShown
    /\ t # searchTerm
    /\ searchTerm' = t
    /\ queryChanges' = queryChanges + 1
    /\ UNCHANGED <<users, filteredUsers, loading, sortBy, sortOrder, showBanned, effectDeps,
                   mounted, dbVars, passes, ops, engine, pureVars>>

\* the sort key select, page.jsx:317
SetSortBy(k) ==
    /\ ControlsShown
    /\ k # sortBy
    /\ sortBy' = k
    /\ queryChanges' = queryChanges + 1
    /\ UNCHANGED <<users, filteredUsers, loading, searchTerm, sortOrder, showBanned,
                   effectDeps, mounted, dbVars, passes, ops, engine, pureVars>>

\* the direction button, page.jsx:327
ToggleSortOrder ==
    /\ ControlsShown
    /\ sortOrder' = IF sortOrder = "asc" THEN "desc" ELSE "asc"
    /\ queryChanges' = queryChanges + 1
    /\ UNCHANGED <<users, filteredUsers, loading, searchTerm, sortBy, showBanned, effectDeps,
                   mounted, dbVars, passes, ops, engine, pureVars>>

\* the banned toggle, page.jsx:333
ToggleShowBanned ==
    /\ ControlsShown
    /\ showBanned' = ~showBanned
    /\ queryChanges' = queryChanges + 1
    /\ UNCHANGED <<users, filteredUsers, loading, searchTerm, sortBy, sortOrder, effectDeps,
                   mounted, dbVars, passes, ops, engine, pureVars>>

(***************************************************************************)
(* The page: Init is the component's state at its first render.            *)
(***************************************************************************)
InitPage ==
    /\ users = <<>>
    /\ filteredUsers = <<>>
    /\ loading = TRUE
    /\ searchTerm = <<>>
    /\ sortBy = "created_at"
    /\ sortOrder = "desc"
    /\ showBanned = TRUE
    /\ effectDeps = <<<<>>, <<>>, "created_at", "desc", TRUE>>
    /\ mounted = FALSE
    /\ queryChanges = 0
    /\ passes = [p \in PassIds |-> IdlePass]
    /\ ops = [o \in OpIds |-> IdleOp]

InitDb ==
    /\ dbUsers = [id \in UserIds |-> [present |-> TRUE, banned |-> Profile(id).banned]]
    /\ dbInterviews = [e \in {Profile(id).email : id \in UserIds} |->
                          Profile(CHOOSE id \in UserIds : Profile(id).email = e).interviewCount]
    /\ dbResults = [r \in {Profile(id).interview_id : id \in UserIds} |->
                       Profile(CHOOSE id \in UserIds : Profile(id).interview_id = r).candidateCount]

Init ==
    /\ InitPage
    /\ InitDb
    /\ engine \in Engines
    /\ call = NoCall
    /\ ret = Absent

Next ==
    \/ Mount
    \/ RunEffect
    \/ \E p \in DOMAIN passes : ListReturns(p)
    \/ \E p \in DOMAIN passes, i \in 1..Cardinality(UserIds) : InterviewCountReturns(p, i)
    \/ \E p \in DOMAIN passes, i \in 1..Cardinality(UserIds) : CandidateCountReturns(p, i)
    \/ \E i \in 1..Cardinality(UserIds) : DeleteStart(i)
    \/ \E o \in DOMAIN ops : InterviewsDeleteReturns(o)
    \/ \E o \in DOMAIN ops : ResultsDeleteReturns(o)
    \/ \E o \in DOMAIN ops : UserDeleteReturns(o)
    \/ \E i \in 1..Cardinality(UserIds) : BanStart(i)
    \/ \E o \in DOMAIN ops : BanReturns(o)
    \/ \E t \in PageTerms : SetSearchTerm(t)
    \/ \E k \in SortKeys : SetSortBy(k)
    \/ ToggleSortOrder
    \/ ToggleShowBanned

Spec == Init /\ [][Next]_vars

(***************************************************************************)
(* The page with room for two moderation actions in flight at once: the    *)
(* second one's fetchUsers() can then start while the first one's pass is  *)
(* still awaiting its queries.                                             *)
(***************************************************************************)
\* the interactions of a session in which two passes can be in flight together
OverlapEvents == MaxEvents + 1

InitOverlap ==
    /\ users = <<>>
    /\ filteredUsers = <<>>
    /\ loading = TRUE
    /\ searchTerm = <<>>
    /\ sortBy = "created_at"
    /\ sortOrder = "desc"
    /\ showBanned = TRUE
    /\ effectDeps = <<<<>>, <<>>, "created_at", "desc", TRUE>>
    /\ mounted = FALSE
    /\ queryChanges = 0
    /\ passes = [p \in 1..(OverlapEvents + 1) |-> IdlePass]
    /\ ops = [o \in 1..OverlapEvents |-> IdleOp]
    /\ InitDb
    /\ engine \in Engines
    /\ call = NoCall
    /\ ret = Absent

SpecOverlap == InitOverlap /\ [][Next]_vars

(***************************************************************************)
(* The pure functions on their own: an invocation drawn from PureCalls,    *)
(* then the function applied.                                              *)
(***************************************************************************)
InitPure ==
    /\ InitPage
    /\ InitDb
    /\ engine \in Engines
    /\ call \in PureCalls
    /\ ret = Absent

CallFilterAndSortUsers ==
    /\ call.fn = "filterAndSortUsers"
    /\ ret = Absent
    /\ ret' = Some(filterAndSortUsers(call.users, call.searchTerm, call.sortBy,
                                      call.sortOrder, call.showBanned, engine))
    /\ UNCHANGED <<pageVars, dbVars, passes, ops, engine, call>>

CallGetStatusText ==
    /\ call.fn = "getStatusText"
    /\ ret = Absent
    /\ ret' = Some(getStatusText(call.user))
    /\ UNCHANGED <<pageVars, dbVars, passes, ops, engine, call>>

CallCalculateRating ==
    /\ call.fn = "calculateRating"
    /\ ret = Absent
    /\ ret' = Some(calculateRating(call.candidate))
    /\ UNCHANGED <<pageVars, dbVars, passes, ops, engine, call>>

NextPure == CallFilterAndSortUsers \/ CallGetStatusText \/ CallCalculateRating

SpecPure == InitPure /\ [][NextPure]_vars

(***************************************************************************)
(* Properties of fetchUsers.                                               *)
(***************************************************************************)
\* C1: in a pass of fetchUsers, if any per-user count lookup fails, the whole pass
\* fails: its result is not installed by setUsers and it ends having shown exactly one
\* failure notification.
C1_LookupFailureFailsPass ==
    \A p \in PassIds :
        passes[p].lookupFailed =>
            /\ passes[p].outcome # "installed"
            /\ passes[p].pc = "done" => (passes[p].outcome = "failed" /\ passes[p].toasts = 1)

\* the step in which the listing query of pass p resolved with an error: the pass was
\* awaiting the listing and moved, without starting its lookups or installing a result
ListErrorStep(p) ==
    /\ passes[p].pc = "list"
    /\ passes'[p] # passes[p]
    /\ passes'[p].pc # "lookups"
    /\ passes'[p].outcome # "installed"

\* C2: when the listing query of a pass returns an error, users is left exactly as it
\* was, the pass has issued exactly one failure notification and one listing query, the
\* loading flag is false after the step, and the pass is over: it never queries or
\* notifies again.
C2_ListErrorLeavesView ==
    [][\A p \in PassIds :
          /\ ListErrorStep(p) =>
                /\ users' = users
                /\ filteredUsers' = filteredUsers
                /\ loading' = FALSE
                /\ passes'[p].pc = "done"
                /\ passes'[p].toasts = 1
                /\ passes'[p].listQueries = 1
          /\ passes[p].outcome = "failed" => passes'[p] = passes[p]]_vars

\* a pass started by a moderation action failed on its listing while the page held a
\* non-empty view
C2_Witness ==
    \E p \in PassIds :
        /\ p > 1
        /\ passes[p].outcome = "failed"
        /\ Len(users) > 0
        /\ ~loading

(***************************************************************************)
(* Properties of deleteUser and banUser.                                   *)
(***************************************************************************)
\* C3: in every run of deleteUser the users delete (c) is issued at most once, it has
\* been issued exactly when (a) and (b) have both returned, whatever they returned, and
\* a run that is over has issued it exactly once.
C3_RootDeleteOnceAfterBoth ==
    \A o \in OpIds :
        ops[o].kind = "delete" =>
            /\ ops[o].cIssued <= 1
            /\ ops[o].cIssued = 1 <=> (ops[o].aRes # "none" /\ ops[o].bRes # "none")
            /\ ops[o].pc \in {"c", "done"} <=> ops[o].cIssued = 1

\* (a) and (b) both failed and (c) was issued
C3_Witness ==
    \E o \in OpIds :
        /\ ops[o].kind = "delete"
        /\ ops[o].aRes = "error"
        /\ ops[o].bRes = "error"
        /\ ops[o].cIssued = 1
        /\ ops[o].pc = "done"

\* the number of fetchUsers calls the runs o..MaxEvents made
RECURSIVE PassesStartedFrom(_)
PassesStartedFrom(o) ==
    IF o \notin OpIds THEN 0 ELSE ops[o].passesStarted + PassesStartedFrom(o + 1)

\* C4: the outcome deleteUser reports depends only on the users delete (c): a run that
\* is over with (c) succeeded issued one success notification, no failure notification
\* and started one pass; with (c) failed, one failure notification, no success
\* notification and no pass; a run that is not over issued nothing.  The passes started
\* are exactly the mount's and those the runs started.
C4_OutcomeFollowsRootDelete ==
    /\ \A o \in OpIds :
          ops[o].kind = "delete" =>
              /\ (ops[o].pc = "done" /\ ops[o].cRes = "ok") =>
                     (ops[o].okToasts = 1 /\ ops[o].errToasts = 0 /\ ops[o].passesStarted = 1)
              /\ (ops[o].pc = "done" /\ ops[o].cRes = "error") =>
                     (ops[o].okToasts = 0 /\ ops[o].errToasts = 1 /\ ops[o].passesStarted = 0)
              /\ ops[o].pc # "done" =>
                     (ops[o].okToasts = 0 /\ ops[o].errToasts = 0 /\ ops[o].passesStarted = 0)
              /\ ops[o].pc = "done" => ops[o].cRes # "none"
    /\ nextPass - 1 = (IF mounted THEN 1 ELSE 0) + PassesStartedFrom(1)

\* the interview delete failed, the users delete succeeded, and success was reported
C4_Witness ==
    \E o \in OpIds :
        /\ ops[o].kind = "delete"
        /\ ops[o].pc = "done"
        /\ ops[o].aRes = "error"
        /\ ops[o].cRes = "ok"
        /\ ops[o].okToasts = 1
        /\ passes[2].pc # "idle"

\* the step in which the update of banUser run o resolved
BanResolvedStep(o) == ops[o].pc = "update" /\ ops'[o].pc = "done"

\* C5: banUser issues one update; the update changes nothing but the banned field of the
\* row with the given id.  When it succeeds that field is the requested status, one
\* success notification is issued and a pass is started; when it fails the backend is
\* unchanged, one failure notification is issued, no pass is started and the page's
\* state is unchanged.
C5_BanUpdatesOneField ==
    [][\A o \in OpIds :
          BanResolvedStep(o) =>
              /\ ops'[o].updates = 1
              /\ dbInterviews' = dbInterviews
              /\ dbResults' = dbResults
              /\ \A id \in UserIds :
                    /\ dbUsers'[id].present = dbUsers[id].present
                    /\ id # ops[o].userId => dbUsers'[id] = dbUsers[id]
              /\ IF ops'[o].cRes = "ok"
                 THEN /\ dbUsers'[ops[o].userId].banned = ops[o].banStatus
                      /\ ops'[o].okToasts = 1
                      /\ ops'[o].errToasts = 0
                      /\ nextPass' = nextPass + 1
                      /\ passes'[nextPass].pc = "list"
                      /\ loading'
                 ELSE /\ dbUsers' = dbUsers
                      /\ ops'[o].okToasts = 0
                      /\ ops'[o].errToasts = 1
                      /\ passes' = passes
                      /\ pageVars' = pageVars]_vars

\* a ban that succeeded set the banned field of its user, left another user unbanned,
\* and started a pass
C5_Witness ==
    \E o \in OpIds :
        /\ ops[o].kind = "ban"
        /\ ops[o].pc = "done"
        /\ ops[o].cRes = "ok"
        /\ ops[o].banStatus
        /\ dbUsers[ops[o].userId].banned
        /\ \E id \in UserIds : ~dbUsers[id].banned
        /\ ops[o].passesStarted = 1

(***************************************************************************)
(* Properties of the filter/sort engine.                                   *)
(***************************************************************************)
\* two characters are the same letter, whatever their case
SameLetter(c, d) ==
    \/ c = d
    \/ {c, d} = {"a", "A"}
    \/ {c, d} = {"b", "B"}

\* s contains t case-insensitively: at some offset every character of t is the same
\* letter as the character of s there
ContainsCI(s, t) ==
    \E k \in 0..Len(s) :
        /\ k + Len(t) <= Len(s)
        /\ \A j \in 1..Len(t) : SameLetter(s[k + j], t[j])

\* the filter of the claim: an absent field does not contain the term
Visible(u, term, showB) ==
    /\ \/ IsPresent(u.name) /\ ContainsCI(u.name[1], term)
       \/ IsPresent(u.email) /\ ContainsCI(u.email[1], term)
    /\ showB \/ ~u.banned

\* filterAndSortUsers was invoked and returned
FilterReturned == call.fn = "filterAndSortUsers" /\ IsPresent(ret)

\* C6: the output of filterAndSortUsers holds exactly the records of the collection
\* whose name or email contains the term case-insensitively and that are not hidden by
\* the banned filter, each once; a record with neither name nor email is never in it.
C6_VisibleSet ==
    FilterReturned =>
        LET out == ret[1]
            inp == call.users
            shown == {i \in 1..Len(inp) : Visible(inp[i], call.searchTerm, call.showBanned)}
        IN  /\ \A i \in 1..Len(inp) : i \in shown <=> \E j \in 1..Len(out) : out[j] = inp[i]
            /\ \A j \in 1..Len(out) : \E i \in shown : out[j] = inp[i]
            /\ Len(out) = Cardinality(shown)
            /\ \A j \in 1..Len(out) : IsPresent(out[j].name) \/ IsPresent(out[j].email)

\* the empty term over a collection with a record that has neither name nor email and
\* with records that are visible
C6_Witness ==
    /\ FilterReturned
    /\ call.searchTerm = <<>>
    /\ \E i \in 1..Len(call.users) :
          ~IsPresent(call.users[i].name) /\ ~IsPresent(call.users[i].email)
    /\ Len(ret[1]) > 0
    /\ Len(ret[1]) < Len(call.users)

\* the selected key of a record: Absent when the record has none
keyOf(u, by) ==
    CASE by = "created_at" -> u.created_at
      [] by = "name" -> u.name
      [] by = "email" -> u.email
      [] by = "interviewCount" -> Some(u.interviewCount)

\* x <= y on two present keys: instants and counts as numbers, names and emails as
\* strings
PresentLeq(x, y, by) ==
    IF by \in {"name", "email"} THEN x = y \/ StrLess(x, y) ELSE x <= y

\* key(a) <= key(b), an absent key being the lowest (absentLow) or the highest
KeyLeq(a, b, by, absentLow) ==
    LET x == keyOf(a, by)
        y == keyOf(b, by)
    IN  IF ~IsPresent(x) THEN absentLow \/ ~IsPresent(y)
        ELSE IF ~IsPresent(y) THEN ~absentLow
        ELSE PresentLeq(x[1], y[1], by)

\* every adjacent pair of out is in the order of the key and the direction
OrderedBy(out, by, ord, absentLow) ==
    \A j \in 1..(Len(out) - 1) :
        IF ord = "asc" THEN KeyLeq(out[j], out[j + 1], by, absentLow)
        ELSE KeyLeq(out[j + 1], out[j], by, absentLow)

\* C7: the output of filterAndSortUsers is ordered by the selected key: every adjacent
\* pair (a, b) has key(a) <= key(b) under ascending and key(a) >= key(b) under
\* descending direction, also with equal keys and absent names (an absent key taken as
\* the lowest or as the highest key, whichever orders the output).
C7_OutputOrdered ==
    FilterReturned =>
        \/ OrderedBy(ret[1], call.sortBy, call.sortOrder, TRUE)
        \/ OrderedBy(ret[1], call.sortBy, call.sortOrder, FALSE)

\* C8: whenever no run of the filter/sort effect is due, filteredUsers is
\* filterAndSortUsers of the current users and the current query state.
C8_VisibleIsCurrent ==
    ~Pending =>
        filteredUsers =
            filterAndSortUsers(users, searchTerm, sortBy, sortOrder, showBanned, engine)

\* the effect has run after a search term was typed and hidden a user of the view
C8_Witness ==
    /\ ~Pending
    /\ searchTerm # <<>>
    /\ Len(filteredUsers) > 0
    /\ Len(filteredUsers) < Len(users)

(***************************************************************************)
(* Properties of getStatusText and calculateRating.                        *)
(***************************************************************************)
StatusReturned == call.fn = "getStatusText" /\ IsPresent(ret)

\* C9: getStatusText returns "Banned" for a banned record whatever its other fields,
\* else "Active" when the interview count is above 0, else "Registered" when there is
\* a creation timestamp, else "Inactive".
C9_StatusPriority ==
    StatusReturned =>
        LET u == call.user
            label == ret[1]
        IN  /\ label \in {"Banned", "Active", "Registered", "Inactive"}
            /\ label = "Banned" <=> u.banned
            /\ label = "Active" <=> (~u.banned /\ u.interviewCount > 0)
            /\ label = "Registered" <=>
                   (~u.banned /\ ~(u.interviewCount > 0) /\ IsPresent(u.created_at))
            /\ label = "Inactive" <=>
                   (~u.banned /\ ~(u.interviewCount > 0) /\ ~IsPresent(u.created_at))

\* a banned user with 5 interviews reports "Banned"
C9_Witness ==
    /\ StatusReturned
    /\ call.user.banned
    /\ call.user.interviewCount = 5
    /\ ret = Some("Banned")

RatingReturned == call.fn = "calculateRating" /\ IsPresent(ret)

\* the rating mapping of a candidate that has one at every level
HasRating(c) ==
    /\ IsPresent(c)
    /\ IsPresent(c[1].conversation_transcript)
    /\ IsPresent(c[1].conversation_transcript[1].feedback)
    /\ IsPresent(c[1].conversation_transcript[1].feedback[1].rating)

\* r is an integer nearest to sum / n
Nearest(r, sum, n) ==
    LET d == sum - r * n
    IN  2 * (IF d < 0 THEN -d ELSE d) <= n

\* C10: calculateRating returns "N/A" when the rating mapping is missing at any level or
\* has no numeric entry; otherwise an integer nearest to the mean of the numeric
\* entries, followed by "/10"; when these entries are all within 0..10, so is it.
C10_RatingIsRoundedMean ==
    RatingReturned =>
        IF ~HasRating(call.candidate) THEN ret = Some("N/A")
        ELSE LET m == call.candidate[1].conversation_transcript[1].feedback[1].rating[1]
                 nums == {k \in DOMAIN m : m[k].type = "number"}
             IN  IF nums = {} THEN ret = Some("N/A")
                 ELSE \E r \in -20..20 :
                         /\ Nearest(r, SumOver(m, nums), Cardinality(nums))
                         /\ ret = Some(ToString(r) \o "/10")
                         /\ (\A k \in nums : m[k].v \in 0..10) => r \in 0..10

\* the rating {a: 4, b: 8, c: null} gives "6/10"
C10_Witness ==
    /\ RatingReturned
    /\ HasRating(call.candidate)
    /\ call.candidate[1].conversation_transcript[1].feedback[1].rating[1] =
           [k \in Criteria |-> CASE k = "a" -> [type |-> "number", v |-> 4]
                                 [] k = "b" -> [type |-> "number", v |-> 8]
                                 [] k = "c" -> [type |-> "object", v |-> 0]]
    /\ ret = Some("6/10")

(***************************************************************************)
(* Overlapping passes.                                                     *)
(***************************************************************************)
\* every run of fetchUsers, deleteUser and banUser that was started has completed
Settled ==
    /\ mounted
    /\ \A p \in DOMAIN passes : passes[p].pc \in {"idle", "done"}
    /\ \A o \in DOMAIN ops : ops[o].pc \in {"idle", "done"}

\* no query of any run returned an error
NoQueryFailed ==
    /\ \A p \in DOMAIN passes : passes[p].outcome # "failed" /\ ~passes[p].lookupFailed
    /\ \A o \in DOMAIN ops : "error" \notin {ops[o].aRes, ops[o].bRes, ops[o].cRes}

\* the enriched views that the backend's current records and counts make
CurrentViews ==
    {[i \in 1..Len(data) |->
         enrich(data[i], countInterviews(data[i].email), countResults(data[i].interview_id))] :
     data \in listUsers}

\* C11: once every pass and every moderation action has completed, none of their queries
\* having failed, the enriched view the page holds is the one the backend's current
\* user records and counts make: a pass that read the backend before the last mutation
\* has not overwritten the result of a pass that read it afterwards.
C11_SettledViewIsCurrent == (Settled /\ NoQueryFailed) => users \in CurrentViews

(***************************************************************************)
(* The comparator and the sort direction.                                  *)
(***************************************************************************)
\* C12: for every pair of records of the list being sorted and every sort key, the
\* comparator's result under the descending direction is the negation of its result
\* under the ascending direction, also when the two records have equal keys.
C12_DirectionFlipsSign ==
    FilterReturned =>
        \A i, j \in 1..Len(call.users) :
            i # j =>
                compare(call.users[i], call.users[j], call.sortBy, "desc")
                    = 0 - compare(call.users[i], call.users[j], call.sortBy, "asc")


====
